---- MODULE Spec2Model ----
(***************************************************************************)
(* A model of the PNG decoder of nicklasbns/imageDecoder.  The repository  *)
(* holds two revisions of the same module: src/index.js (the older one,    *)
(* four channels only) and src/unnamed/part_000 (the newer one, three or   *)
(* four channels).  The variable rev names the revision a behaviour runs;  *)
(* every operator that differs between the two takes the revision.         *)
(*                                                                         *)
(* JavaScript values that are not numbers (undefined read out of range,    *)
(* NaN) are the single value NaN; arithmetic on it yields NaN and every    *)
(* comparison with it is false, as in the language.                        *)
(***************************************************************************)
EXTENDS Integers, Sequences, FiniteSets, TLC

VARIABLES
    rev,        \* "index" (src/index.js) or "part_000" (src/unnamed/part_000)
    png,        \* the downloaded buffer, a sequence of bytes
    i,          \* the chunk walk's cursor (0-based offset into png)
    pc,         \* position of decode's executor
    imageData,  \* the image record under construction
    base,       \* the concatenated IDAT payloads
    pixels,     \* what decodeIDAT returned
    promise,    \* state of the promise decode returns
    err,        \* the reason of the first reject() call that settled it
    data,       \* the grouped pixel tuples of the resolved record
    hist,       \* history of the walk, read by the properties only
    totals,     \* state and value of the promise mean returns
    oracle,     \* what the decompressor returned for the accumulator so far
    arg,        \* the arguments decodeIDAT is applied to on its own
    ret         \* what it returned

vars == <<rev, png, i, pc, imageData, base, pixels, promise, err, data, hist,
          totals, oracle, arg, ret>>

(***************************************************************************)
(* Bounds of the model.                                                    *)
(***************************************************************************)
MaxWidth == 2
MaxHeight == 2
MaxTail == 2
MaxSeed == 2
MaxNeighbour == 5

(***************************************************************************)
(* JavaScript values.                                                      *)
(***************************************************************************)
NaN == -999999999

Revisions == {"index", "part_000"}

Min(a, b) == IF a < b THEN a ELSE b
Max(a, b) == IF a > b THEN a ELSE b

\* arr[n] for a 0-based index n: undefined (NaN) outside the array.
At(arr, n) ==
    IF n = NaN THEN NaN
    ELSE IF n >= 0 /\ n < Len(arr) THEN arr[n + 1] ELSE NaN

\* TypedArray.prototype.subarray(b, e): negative offsets count from the end,
\* both are clamped to the array, an empty range yields an empty array.
RelIndex(n, len) == IF n < 0 THEN Max(len + n, 0) ELSE Min(n, len)

Subarray(arr, b, e) ==
    LET bb == RelIndex(b, Len(arr))
        ee == RelIndex(e, Len(arr))
    IN  IF ee <= bb THEN <<>> ELSE SubSeq(arr, bb + 1, ee)

\* (arr[int] << 24) | (arr[int+1] << 16) | (arr[int+2] << 8) | arr[int+3]:
\* a missing byte shifts as 0, and the result is a signed 32-bit integer
\* (a first byte of 128 or more makes it negative).
ShiftByte(arr, n) == IF At(arr, n) = NaN THEN 0 ELSE At(arr, n)

read32(arr, int) ==
    LET b0 == ShiftByte(arr, int)
        b1 == ShiftByte(arr, int + 1)
        b2 == ShiftByte(arr, int + 2)
        b3 == ShiftByte(arr, int + 3)
        hi == IF b0 >= 128 THEN b0 - 256 ELSE b0
    IN  hi * 16777216 + b1 * 65536 + b2 * 256 + b3

\* (p + x) % 256 on numbers.
AddMod(p, x) == IF p = NaN \/ x = NaN THEN NaN ELSE (p + x) % 256

Abs(x) == IF x < 0 THEN -x ELSE x

(***************************************************************************)
(* The promise decode returns: the first reject() or respond() settles it, *)
(* later calls change nothing.                                             *)
(***************************************************************************)
Err(kind, sel, row) == [kind |-> kind, sel |-> sel, row |-> row]

NoErr == Err("none", NaN, NaN)

Reject(e) ==
    IF promise = "pending"
    THEN promise' = "rejected" /\ err' = e
    ELSE UNCHANGED <<promise, err>>

Respond ==
    IF promise = "pending"
    THEN promise' = "resolved" /\ err' = err
    ELSE UNCHANGED <<promise, err>>

(***************************************************************************)
(* Input buffers: the signature followed by chunks.                        *)
(***************************************************************************)
Signature == <<137, 80, 78, 71, 13, 10, 26, 10>>

TagIHDR == <<73, 72, 68, 82>>
TagPLTE == <<80, 76, 84, 69>>
TagIDAT == <<73, 68, 65, 84>>
TagIEND == <<73, 69, 78, 68>>
TagtEXt == <<116, 69, 88, 116>>

U32Bytes(n) == <<0, 0, n \div 256, n % 256>>

MkChunk(lenBytes, tag, payload) == lenBytes \o tag \o payload \o <<0, 0, 0, 0>>

\* (depth, colour type, interlace flag) of the headers the model feeds in.
HeaderVariants ==
    { <<8, 6, 0>>, <<8, 2, 0>> }

BadHeaderVariants ==
    { <<16, 6, 0>>, <<8, 3, 0>>, <<8, 0, 0>>, <<8, 6, 1>>, <<8, 6, 2>> }

Headers ==
    { [w |-> w, h |-> h, d |-> v[1], c |-> v[2], il |-> v[3]] :
        w \in 1..MaxWidth, h \in 1..MaxHeight, v \in HeaderVariants }
    \cup
    { [w |-> 1, h |-> 1, d |-> v[1], c |-> v[2], il |-> v[3]] :
        v \in BadHeaderVariants }

IHDRChunk(h) ==
    MkChunk(U32Bytes(13), TagIHDR,
            U32Bytes(h.w) \o U32Bytes(h.h) \o <<h.d, h.c, 0, 0, h.il>>)

TailKinds == {"PLTE", "IDAT", "IEND", "tEXt", "neg", "long", "cut"}

TailChunk(kind) ==
    CASE kind = "PLTE" -> MkChunk(U32Bytes(3), TagPLTE, <<1, 2, 3>>)
      [] kind = "IDAT" -> MkChunk(U32Bytes(2), TagIDAT, <<120, 156>>)
      [] kind = "IEND" -> MkChunk(U32Bytes(0), TagIEND, <<>>)
      [] kind = "tEXt" -> MkChunk(U32Bytes(1), TagtEXt, <<65>>)
         \* length field FF FF FF F4
      [] kind = "neg"  -> MkChunk(<<255, 255, 255, 244>>, TagtEXt, <<>>)
         \* declares 40 payload bytes and carries 2
      [] kind = "long" -> MkChunk(U32Bytes(40), TagIDAT, <<120, 156>>)
         \* an end chunk whose checksum is missing
      [] kind = "cut"  -> U32Bytes(0) \o TagIEND

Tails == UNION { [1..n -> TailKinds] : n \in 0..MaxTail }

RECURSIVE ConcatTail(_, _)
ConcatTail(t, k) ==
    IF k > Len(t) THEN <<>> ELSE TailChunk(t[k]) \o ConcatTail(t, k + 1)

Buffers ==
    { <<>>, <<137, 80, 78, 71, 13, 10, 26, 11>> \o TailChunk("IEND") }
    \cup { Signature \o ConcatTail(t, 1) : t \in Tails }
    \cup { Signature \o IHDRChunk(h) \o ConcatTail(t, 1) :
             h \in Headers, t \in Tails }

(***************************************************************************)
(* Decompressed streams the external decompressor may hand back.           *)
(***************************************************************************)
SampleByte(seed, j, k) == (200 + 113 * seed + 91 * j + 37 * k) % 256

\* height rows of length + 1 bytes: the filter selector fs[j+1], then the
\* filtered samples.
MakeStream(length, height, fs, seed) ==
    [n \in 1..(height * (length + 1)) |->
        LET j == (n - 1) \div (length + 1)
            k == (n - 1) % (length + 1)
        IN  IF k = 0 THEN fs[j + 1] ELSE SampleByte(seed, j, k - 1)]

CutStream(s, c) == SubSeq(s, 1, Max(Len(s) - c, 0))

Selectors == {0, 1, 2, 3, 4, 7}

\* one row carries the selector f, the others selector 0
WalkFilters(height) ==
    { [j \in 1..height |-> IF j = r THEN f ELSE 0] :
        r \in 1..height, f \in Selectors }

\* what pako.inflate(base) does: it throws, or returns a byte stream
Threw == [threw |-> TRUE, out |-> <<>>]

Returned(s) == [threw |-> FALSE, out |-> s]

InflateOutcomes(length, height) ==
    IF length = NaN \/ height = NaN \/ length < 1 \/ height < 1
    THEN { Threw, Returned(<<>>), Returned(<<0, 10, 20, 30, 255>>) }
    ELSE { Threw, Returned(<<>>) }
         \cup { Returned(CutStream(MakeStream(length, height, fs, seed), c)) :
                  fs \in WalkFilters(height), seed \in 0..MaxSeed,
                  c \in {0, 2, length + 1} }

(***************************************************************************)
(* decodeIDAT: the scanline reconstruction.                                *)
(***************************************************************************)
\* LeftOf with the first pixel's bound off by one
LeftOfLate(bytes, start, k, channels) ==
    IF k > channels THEN At(bytes, start + k - channels) ELSE 0

\* let a = k>channels-1 ? bytes[start+k-channels] : 0
LeftOf(bytes, start, k, channels) ==
    IF k > channels - 1 THEN At(bytes, start + k - channels) ELSE 0

\* let b = j ? bytes[start+k-length] : 0
AboveOf(bytes, start, j, k, length) ==
    IF j # 0 THEN At(bytes, start + k - length) ELSE 0

\* let c = k>channels-1&&j ? bytes[start+k-length-channels] : 0
DiagOf(bytes, start, j, k, length, channels) ==
    IF k > channels - 1 /\ j # 0
    THEN At(bytes, start + k - length - channels) ELSE 0

\* Math.floor((a+b)/2)
Average(a, b) == IF a = NaN \/ b = NaN THEN NaN ELSE (a + b) \div 2

\* PaethByte with the comparison of a and c made >=: a tie of a and c goes
\* to c
PaethByteTieToC(a, b, c, x) ==
    IF a = NaN \/ b = NaN \/ c = NaN
    THEN AddMod(a, x)
    ELSE LET p == a + b - c
         IN  IF Abs(p - a) > Abs(p - b)
             THEN IF Abs(p - b) > Abs(p - c)
                  THEN AddMod(c, x)
                  ELSE AddMod(b, x)
             ELSE IF Abs(p - a) >= Abs(p - c)
                  THEN AddMod(c, x)
                  ELSE AddMod(a, x)

\* The nested comparisons of case 4.  A comparison with NaN is false, which
\* leads to the last branch.
PaethByte(a, b, c, x) ==
    IF a = NaN \/ b = NaN \/ c = NaN
    THEN AddMod(a, x)
    ELSE LET p == a + b - c
         IN  IF Abs(p - a) > Abs(p - b)
             THEN IF Abs(p - b) > Abs(p - c)
                  THEN AddMod(c, x)
                  ELSE AddMod(b, x)
             ELSE IF Abs(p - a) > Abs(p - c)
                  THEN AddMod(c, x)
                  ELSE AddMod(a, x)

\* The byte one iteration of a row's loop pushes, for selector sel in 0..4.
Reconstruct(sel, bytes, scanline, start, j, k, length, channels) ==
    LET x == At(scanline, k)
        a == LeftOf(bytes, start, k, channels)
        b == AboveOf(bytes, start, j, k, length)
        c == DiagOf(bytes, start, j, k, length, channels)
    IN  CASE sel = 0 -> AddMod(0, x)
          [] sel = 1 -> AddMod(a, x)
          [] sel = 2 -> AddMod(b, x)
          [] sel = 3 -> AddMod(Average(a, b), x)
          [] sel = 4 -> PaethByte(a, b, c, x)

\* for (let k = 0; k < length; k++) bytes.push(...)
RECURSIVE ScanRow(_, _, _, _, _, _, _)
ScanRow(sel, scanline, length, channels, j, k, bytes) ==
    IF ~(k < length) THEN bytes
    ELSE ScanRow(sel, scanline, length, channels, j, k + 1,
                 Append(bytes, Reconstruct(sel, bytes, scanline, j * length,
                                           j, k, length, channels)))

\* for (let j = 0; j < height; j++): the result is the bytes, or the
\* selector and row of the default arm.
RECURSIVE ScanRows(_, _, _, _, _, _)
ScanRows(dat, length, height, channels, j, bytes) ==
    IF height = NaN \/ ~(j < height)
    THEN [ok |-> TRUE, bytes |-> bytes, sel |-> NaN, row |-> NaN]
    ELSE LET sel == IF length = NaN THEN NaN ELSE At(dat, j * (length + 1))
         IN  IF sel \in 0..4
             THEN ScanRows(dat, length, height, channels, j + 1,
                           ScanRow(sel,
                                   Subarray(dat, j * (length + 1) + 1,
                                            (j + 1) * (length + 1)),
                                   length, channels, j, 0, bytes))
             ELSE [ok |-> FALSE, bytes |-> <<>>, sel |-> sel, row |-> j]

decodeIDAT(dat, length, height, channels) ==
    ScanRows(dat, length, height, channels, 0, <<>>)

(***************************************************************************)
(* decode: pieces of the chunk walk.                                       *)
(***************************************************************************)
NoImage ==
    [width |-> NaN, height |-> NaN, depth |-> NaN, color |-> NaN,
     channels |-> NaN]

\* imageData = {width, height, depth, color} of the header chunk at i
HeaderOf(buf, at) ==
    [width |-> read32(buf, at + 8), height |-> read32(buf, at + 12),
     depth |-> At(buf, at + 16), color |-> At(buf, at + 17),
     channels |-> NaN]

\* What the IHDR arm does with the header: the reject() it calls ("none"
\* when it calls none), whether it returns from the executor, and the
\* channel count it stores.
IHDRCheckIndex(img, il) ==
    IF img.color # 6
    THEN [reject |-> "colortype", stop |-> TRUE, channels |-> NaN]
    ELSE IF il = 1
    THEN [reject |-> "interlaced", stop |-> TRUE, channels |-> NaN]
    ELSE [reject |-> "none", stop |-> FALSE, channels |-> NaN]

IHDRCheckPart(img, il) ==
    IF il = 1
    THEN [reject |-> "interlaced", stop |-> TRUE, channels |-> NaN]
    ELSE IF img.color = 6
    THEN [reject |-> "none", stop |-> FALSE, channels |-> 4]
    ELSE IF img.color = 2
    THEN [reject |-> "none", stop |-> FALSE, channels |-> 3]
    ELSE IF img.color = 3
    THEN [reject |-> "palette", stop |-> FALSE, channels |-> NaN]
    ELSE [reject |-> "colortype", stop |-> TRUE, channels |-> NaN]

IHDRCheck(r, img, il) ==
    IF r = "index" THEN IHDRCheckIndex(img, il) ELSE IHDRCheckPart(img, il)

\* the PLTE arm: the older revision rejects and walks on
PLTERejects(r) == r = "index"

\* the channel count decodeIDAT works with
ChannelsOf(r, img) == IF r = "index" THEN 4 ELSE img.channels

\* imageData.width*imageData.depth*channels/8 (every header of the model
\* has a depth that is a multiple of 8)
StrideOf(r, img) ==
    LET ch == ChannelsOf(r, img)
    IN  IF img.width = NaN \/ img.depth = NaN \/ ch = NaN THEN NaN
        ELSE (img.width * img.depth * ch) \div 8

\* newer revision: pixels2[i][j] = pixels[i*channels+j] for i < length/channels
GroupPart(px, channels) ==
    IF channels = NaN THEN <<>>
    ELSE [n \in 1..((Len(px) + channels - 1) \div channels) |->
            [c \in 1..channels |-> At(px, (n - 1) * channels + c - 1)]]

\* older revision: pixels[i] = [pixels[i*4+0..3]] in place, then
\* pixels.slice(0, pixels.length/4)
RECURSIVE GroupInPlace(_, _, _)
GroupInPlace(px, n, len) ==
    IF ~(n * 4 < len) THEN px
    ELSE GroupInPlace(
            [px EXCEPT ![n + 1] = <<At(px, n * 4), At(px, n * 4 + 1),
                                    At(px, n * 4 + 2), At(px, n * 4 + 3)>>],
            n + 1, len)

GroupIndex(px) == SubSeq(GroupInPlace(px, 0, Len(px)), 1, Len(px) \div 4)

GroupPixels(r, px, img) ==
    IF r = "index" THEN GroupIndex(px) ELSE GroupPart(px, img.channels)

\* what decodeIDAT's default arm does: the newer revision calls the reject
\* it was handed and returns []; the older one names a reject that is not
\* in its scope, which throws out of the executor
DefaultArmThrows(r) == r = "index"

\* String.fromCharCode(...png.subarray(i+4, i+8))
TagAt(buf, at) == Subarray(buf, at + 4, at + 8)

\* The chunk at offset at runs past the end of the buffer, its length field
\* read as an unsigned 32-bit integer.
ChunkOverruns(buf, at) ==
    \/ ShiftByte(buf, at) >= 128
    \/ at + 12 + read32(buf, at) > Len(buf)

NoHist ==
    [hdrBad |-> FALSE, hdrRejected |-> FALSE, afterReject |-> FALSE,
     appendedAfterReject |-> FALSE, inflateAfterReject |-> FALSE,
     inflateThrew |-> FALSE, badRow |-> FALSE, badSel |-> NaN,
     badRowAt |-> NaN, truncated |-> FALSE, ended |-> "running"]

\* the history after visiting the chunk at the cursor
Visit(h) ==
    [h EXCEPT !.truncated = @ \/ ChunkOverruns(png, i),
              !.afterReject = @ \/ h.hdrRejected]

\* pako.inflate is a function of its input: a second call on the same
\* accumulator does what the first did
NoOracle == [known |-> FALSE, base |-> <<>>, outcome |-> Threw]

InflateChoice ==
    IF oracle.known /\ oracle.base = base
    THEN {oracle.outcome}
    ELSE InflateOutcomes(StrideOf(rev, imageData), imageData.height)

NoTotals == [state |-> "pending", value |-> <<>>]

(***************************************************************************)
(* The initial state: decode(url) has been called.                         *)
(***************************************************************************)
Init ==
    /\ rev \in Revisions
    /\ png = <<>>
    /\ i = 0
    /\ pc = "download"
    /\ imageData = NoImage
    /\ base = <<>>
    /\ pixels = <<>>
    /\ promise = "pending"
    /\ err = NoErr
    /\ data = <<>>
    /\ hist = NoHist
    /\ totals = NoTotals
    /\ oracle = NoOracle
    /\ arg = <<>>
    /\ ret = <<>>

(***************************************************************************)
(* decode                                                                  *)
(***************************************************************************)
\* await download(url) yields a buffer
Download ==
    /\ pc = "download"
    /\ \E buf \in Buffers : png' = buf
    /\ pc' = "signature"
    /\ UNCHANGED <<rev, i, imageData, base, pixels, promise, err, data, hist,
                   totals, oracle, arg, ret>>

\* download(url) rejects: the catch handler rejects, and if (!png) return
DownloadFails ==
    /\ pc = "download"
    /\ Reject(Err("download", NaN, NaN))
    /\ pc' = "done"
    /\ hist' = [hist EXCEPT !.ended = "return"]
    /\ UNCHANGED <<rev, png, i, imageData, base, pixels, data, totals, oracle,
                   arg, ret>>

\* png.subarray(0, 8).join() != "137,80,78,71,13,10,26,10"
BadSignature ==
    /\ pc = "signature"
    /\ Subarray(png, 0, 8) # Signature
    /\ Reject(Err("signature", NaN, NaN))
    /\ pc' = "done"
    /\ hist' = [hist EXCEPT !.ended = "return"]
    /\ UNCHANGED <<rev, png, i, imageData, base, pixels, data, totals, oracle,
                   arg, ret>>

GoodSignature ==
    /\ pc = "signature"
    /\ Subarray(png, 0, 8) = Signature
    /\ i' = 8
    /\ pc' = "walk"
    /\ UNCHANGED <<rev, png, imageData, base, pixels, promise, err, data,
                   hist, totals, oracle, arg, ret>>

AtChunk(tag) ==
    /\ pc = "walk"
    /\ i < Len(png)
    /\ TagAt(png, i) = tag

\* i += length+12
Advance == i' = i + read32(png, i) + 12

ChunkIHDR ==
    /\ AtChunk(TagIHDR)
    /\ LET img == HeaderOf(png, i)
           il == At(png, i + 20)
           v == IHDRCheck(rev, img, il)
           h == [Visit(hist) EXCEPT
                    !.hdrBad = @ \/ img.depth # 8 \/ il # 0
                                 \/ img.color \notin {2, 6},
                    !.hdrRejected = @ \/ v.reject # "none"]
       IN  /\ imageData' = [img EXCEPT !.channels = v.channels]
           /\ IF v.reject # "none"
              THEN Reject(Err(v.reject, NaN, NaN))
              ELSE UNCHANGED <<promise, err>>
           /\ IF v.stop
              THEN /\ pc' = "done"
                   /\ i' = i
                   /\ hist' = [h EXCEPT !.ended = "return"]
              ELSE /\ pc' = pc
                   /\ Advance
                   /\ hist' = h
    /\ UNCHANGED <<rev, png, base, pixels, data, totals, oracle, arg, ret>>

ChunkPLTE ==
    /\ AtChunk(TagPLTE)
    /\ IF PLTERejects(rev)
       THEN Reject(Err("palette", NaN, NaN))
       ELSE UNCHANGED <<promise, err>>
    /\ Advance
    /\ hist' = Visit(hist)
    /\ UNCHANGED <<rev, png, pc, imageData, base, pixels, data, totals, oracle,
                   arg, ret>>

\* base.push(...png.subarray(i+8, i+8+length))
ChunkIDAT ==
    /\ AtChunk(TagIDAT)
    /\ base' = base \o Subarray(png, i + 8, i + 8 + read32(png, i))
    /\ Advance
    /\ hist' = [Visit(hist) EXCEPT
                   !.appendedAfterReject = @ \/ hist.hdrRejected]
    /\ UNCHANGED <<rev, png, pc, imageData, pixels, promise, err, data,
                   totals, oracle, arg, ret>>

\* pako.inflate(base) throws: the exception leaves the async executor, whose
\* own promise nobody holds; the promise decode returned is not touched.
ChunkIENDThrows ==
    /\ AtChunk(TagIEND)
    /\ Threw \in InflateChoice
    /\ pc' = "done"
    /\ hist' = [Visit(hist) EXCEPT
                   !.inflateThrew = TRUE,
                   !.inflateAfterReject = @ \/ hist.hdrRejected,
                   !.ended = "throw"]
    /\ UNCHANGED <<rev, png, i, imageData, base, pixels, promise, err, data,
                   totals, oracle, arg, ret>>

\* pako.inflate(base) returns a stream, and decodeIDAT reconstructs it
ChunkIEND ==
    /\ AtChunk(TagIEND)
    /\ \E o \in InflateChoice :
         /\ ~o.threw
         /\ oracle' = [known |-> TRUE, base |-> base, outcome |-> o]
         /\ LET r == decodeIDAT(o.out, StrideOf(rev, imageData),
                                imageData.height, ChannelsOf(rev, imageData))
                h == [Visit(hist) EXCEPT
                        !.inflateAfterReject = @ \/ hist.hdrRejected,
                        !.badRow = @ \/ (~r.ok /\ r.sel # NaN),
                        !.badSel = IF ~hist.badRow /\ ~r.ok /\ r.sel # NaN
                                   THEN r.sel ELSE @,
                        !.badRowAt = IF ~hist.badRow /\ ~r.ok /\ r.sel # NaN
                                     THEN r.row ELSE @]
            IN  IF r.ok
                THEN /\ pixels' = r.bytes
                     /\ Advance
                     /\ pc' = pc
                     /\ hist' = h
                     /\ UNCHANGED <<promise, err>>
                ELSE IF DefaultArmThrows(rev)
                THEN /\ pc' = "done"
                     /\ hist' = [h EXCEPT !.ended = "throw"]
                     /\ UNCHANGED <<i, pixels, promise, err>>
                ELSE /\ Reject(Err("filter", r.sel, r.row))
                     /\ pixels' = <<>>
                     /\ Advance
                     /\ pc' = pc
                     /\ hist' = h
    /\ UNCHANGED <<rev, png, imageData, base, data, totals, arg, ret>>

\* the default arm of the switch
ChunkOther ==
    /\ pc = "walk"
    /\ i < Len(png)
    /\ TagAt(png, i) \notin {TagIHDR, TagPLTE, TagIDAT, TagIEND}
    /\ Advance
    /\ hist' = Visit(hist)
    /\ UNCHANGED <<rev, png, pc, imageData, base, pixels, promise, err, data,
                   totals, oracle, arg, ret>>

\* after the loop: group the bytes into pixels and respond(imageData)
Finish ==
    /\ pc = "walk"
    /\ ~(i < Len(png))
    /\ data' = GroupPixels(rev, pixels, imageData)
    /\ Respond
    /\ pc' = "done"
    /\ hist' = [hist EXCEPT !.ended = "respond"]
    /\ UNCHANGED <<rev, png, i, imageData, base, pixels, totals, oracle, arg,
                   ret>>

(***************************************************************************)
(* mean                                                                    *)
(***************************************************************************)
\* totals[i] += pixel[i] over the pixels, for (let i in pixel): an index the
\* pixel does not have adds nothing
RECURSIVE SumChannel(_, _, _)
SumChannel(px, c, n) ==
    IF n > Len(px) THEN 0
    ELSE LET rest == SumChannel(px, c, n + 1)
             v == IF c <= Len(px[n]) THEN px[n][c] ELSE 0
         IN  IF rest = NaN \/ v = NaN THEN NaN ELSE v + rest

\* Math.round(t / n) for t >= 0: halves round up; 0/0 is NaN
MathRound(t, n) ==
    IF t = NaN \/ n = 0 THEN NaN ELSE (2 * t + n) \div (2 * n)

MeanTotals(px) ==
    [c \in 1..4 |-> MathRound(SumChannel(px, c, 1), Len(px))]

\* await decode(url) yields the image record
MeanResolves ==
    /\ promise = "resolved"
    /\ totals.state = "pending"
    /\ totals' = [state |-> "resolved", value |-> MeanTotals(data)]
    /\ UNCHANGED <<rev, png, i, pc, imageData, base, pixels, promise, err,
                   data, hist, oracle, arg, ret>>

\* await decode(url) throws
MeanRejects ==
    /\ promise = "rejected"
    /\ totals.state = "pending"
    /\ totals' = [state |-> "rejected", value |-> <<>>]
    /\ UNCHANGED <<rev, png, i, pc, imageData, base, pixels, promise, err,
                   data, hist, oracle, arg, ret>>

Next ==
    \/ Download
    \/ DownloadFails
    \/ BadSignature
    \/ GoodSignature
    \/ ChunkIHDR
    \/ ChunkPLTE
    \/ ChunkIDAT
    \/ ChunkIENDThrows
    \/ ChunkIEND
    \/ ChunkOther
    \/ Finish
    \/ MeanResolves
    \/ MeanRejects

Spec == Init /\ [][Next]_vars

(***************************************************************************)
(* The reconstruction as a function of its inputs: the specifications      *)
(* below draw a decompressed stream and apply decodeIDAT to it.            *)
(***************************************************************************)
\* the channel counts a revision can call decodeIDAT with
ChannelCounts(r) == IF r = "index" THEN {4} ELSE {3, 4}

Idle(position) ==
    /\ png = <<>>
    /\ i = 0
    /\ pc = position
    /\ imageData = NoImage
    /\ base = <<>>
    /\ pixels = <<>>
    /\ promise = "pending"
    /\ err = NoErr
    /\ data = <<>>
    /\ hist = NoHist
    /\ totals = NoTotals
    /\ oracle = NoOracle
    /\ ret = <<>>

\* Well-formed streams: height rows of length + 1 bytes, selectors 0..4.
InitFilter ==
    /\ rev \in Revisions
    /\ Idle("filter")
    /\ \E ch \in ChannelCounts(rev), w \in 1..MaxWidth, h \in 1..MaxHeight,
          seed \in 0..MaxSeed :
         \E fs \in [1..h -> 0..4] :
            arg = [stream |-> MakeStream(w * ch, h, fs, seed),
                   length |-> w * ch, height |-> h, channels |-> ch,
                   fs |-> fs]

ApplyFilters ==
    /\ pc = "filter"
    /\ ret' = decodeIDAT(arg.stream, arg.length, arg.height, arg.channels)
    /\ pc' = "filtered"
    /\ UNCHANGED <<rev, png, i, imageData, base, pixels, promise, err, data,
                   hist, totals, oracle, arg>>

SpecFilter == InitFilter /\ [][ApplyFilters]_vars

\* Paeth neighbourhoods: a two by two image whose second row is Paeth
\* filtered; the first byte of its second pixel has the reconstructed
\* neighbours a (left), b (above) and c (above left) and the filtered
\* byte x.
NeighbourValues == (0..MaxNeighbour) \cup {51, 102, 153, 204, 255}

FilteredValues == {0, 1, 200, 255}

PaethStream(ch, a, b, c, x) ==
    [n \in 1..(2 * (2 * ch + 1)) |->
        IF n = 1 THEN 0
        ELSE IF n = 2 THEN c
        ELSE IF n = 2 + ch THEN b
        ELSE IF n = 2 * ch + 2 THEN 4
        ELSE IF n = 2 * ch + 3 THEN (a + 256 - c) % 256
        ELSE IF n = 3 * ch + 3 THEN x
        ELSE 0]

InitPaeth ==
    /\ rev \in Revisions
    /\ Idle("paeth")
    /\ \E ch \in ChannelCounts(rev), a \in NeighbourValues,
          b \in NeighbourValues, c \in NeighbourValues,
          x \in FilteredValues :
         arg = [stream |-> PaethStream(ch, a, b, c, x),
                length |-> 2 * ch, height |-> 2, channels |-> ch,
                a |-> a, b |-> b, c |-> c, x |-> x]

ApplyPaeth ==
    /\ pc = "paeth"
    /\ ret' = decodeIDAT(arg.stream, arg.length, arg.height, arg.channels)
    /\ pc' = "paethed"
    /\ UNCHANGED <<rev, png, i, imageData, base, pixels, promise, err, data,
                   hist, totals, oracle, arg>>

SpecPaeth == InitPaeth /\ [][ApplyPaeth]_vars

(***************************************************************************)
(* Properties.                                                             *)
(***************************************************************************)
IsByte(v) == v \in 0..255

\* C1: a header chunk that declares a bit depth other than 8, an interlace
\* flag other than 0 or a colour type other than 2 and 6 never leads to a
\* resolved promise.
C1_BadHeaderNeverResolves ==
    hist.hdrBad => promise # "resolved"

\* C2: every image record decode resolves with holds width * height pixel
\* tuples of channelsPerPixel bytes each (3 for colour type 2, 4 for colour
\* type 6), in the row-major order of the reconstructed bytes.
C2_DataIsWidthTimesHeight ==
    (promise = "resolved" /\ imageData.width # NaN) =>
        LET ch == IF imageData.color = 2 THEN 3 ELSE 4
        IN  /\ Len(data) = imageData.width * imageData.height
            /\ \A n \in 1..Len(data) :
                  /\ Len(data[n]) = ch
                  /\ \A c \in 1..ch :
                        /\ IsByte(data[n][c])
                        /\ data[n][c] = At(pixels, (n - 1) * ch + c - 1)

\* C3: when the decompressor throws, the promise decode returned ends
\* rejected: not resolved, and not pending once the executor is over.
C3_InflateFailureRejects ==
    (pc = "done" /\ hist.inflateThrew) => promise = "rejected"

\* C4: when a scanline carries a filter selector outside 0..4, the promise
\* ends rejected with the unsupported-filter error of that selector and row.
C4_BadSelectorRejects ==
    (pc = "done" /\ hist.badRow) =>
        /\ promise = "rejected"
        /\ err = Err("filter", hist.badSel, hist.badRowAt)

\* C5: a chunk whose declared length runs past the end of the buffer never
\* leads to a resolved promise.
C5_TruncatedNeverResolves ==
    hist.truncated => promise # "resolved"

\* C6: for an image of at least one pixel, each of the four values mean
\* returns is an integer in 0..255, the nearest to the sum of that channel's
\* bytes divided by the pixel count.
C6_MeanIsRoundedAverage ==
    (totals.state = "resolved" /\ Len(data) >= 1) =>
        \A c \in 1..4 :
            LET v == totals.value[c]
                sum == SumChannel(data, c, 1)
            IN  /\ IsByte(v)
                /\ 2 * Len(data) * v <= 2 * sum + Len(data)
                /\ 2 * sum + Len(data) < 2 * Len(data) * (v + 1)

\* The neighbour the Paeth rule of the specification chooses.
PaethChoice(a, b, c) ==
    LET p == a + b - c
        pa == Abs(p - a)
        pb == Abs(p - b)
        pc0 == Abs(p - c)
    IN  IF pa <= pb /\ pa <= pc0 THEN a
        ELSE IF pb <= pc0 THEN b
        ELSE c

\* C7: for selector 4 and reconstructed neighbours a, b, c and filtered byte
\* x, the reconstructed byte is (chosen + x) mod 256, chosen being a if
\* pa <= pb and pa <= pc, else b if pb <= pc, else c.
C7_PaethMatchesRule ==
    pc = "paethed" =>
        LET ch == arg.channels
            out == ret.bytes
        IN  /\ ret.ok
            /\ Len(out) = 4 * ch
            /\ out[1] = arg.c
            /\ out[ch + 1] = arg.b
            /\ out[2 * ch + 1] = arg.a
            /\ out[3 * ch + 1] =
                  (PaethChoice(arg.a, arg.b, arg.c) + arg.x) % 256

\* C7 witness: a tie of a and c that b loses (a = 0, b = 3, c = 2: pa = 1,
\* pb = 2, pc = 1) has been reconstructed, and a was chosen.
C7_Witness ==
    /\ pc = "paethed"
    /\ arg.a = 0 /\ arg.b = 3 /\ arg.c = 2 /\ arg.x = 255
    /\ ret.bytes[3 * arg.channels + 1] = 255

\* C8: in a well-formed stream, Sub, Up and Average take their neighbours
\* from the reconstructed bytes: a from the same row, channelsPerPixel
\* columns to the left (0 in the first pixel), b from the row above (0 in
\* the first row).
C8_NeighboursAreReconstructed ==
    pc = "filtered" =>
        LET len == arg.length
            ch == arg.channels
            Out(j, k) == ret.bytes[j * len + k + 1]
            In(j, k) == arg.stream[j * (len + 1) + k + 2]
        IN  /\ ret.ok
            /\ Len(ret.bytes) = arg.height * len
            /\ \A j \in 0..(arg.height - 1), k \in 0..(len - 1) :
                  LET a == IF k < ch THEN 0 ELSE Out(j, k - ch)
                      b == IF j = 0 THEN 0 ELSE Out(j - 1, k)
                  IN  /\ arg.fs[j + 1] = 1 => Out(j, k) = (a + In(j, k)) % 256
                      /\ arg.fs[j + 1] = 2 => Out(j, k) = (b + In(j, k)) % 256
                      /\ arg.fs[j + 1] = 3 =>
                            Out(j, k) = ((a + b) \div 2 + In(j, k)) % 256

\* C8 witness: a two-row, two-pixel image of three channels with an Average
\* row under a Sub row has been reconstructed, and the first byte of the
\* second pixel differs from its filtered byte in both rows (a neighbour
\* that is not 0 was added).
C8_Witness ==
    /\ pc = "filtered"
    /\ arg.channels = 3 /\ arg.height = 2 /\ arg.length = 6
    /\ arg.fs = <<1, 3>>
    /\ ret.ok
    /\ ret.bytes[4] # arg.stream[5]
    /\ ret.bytes[10] # arg.stream[12]

\* C9: at every chunk the walk visits, the length it reads is not negative,
\* so that the cursor advances by at least 12.
C9_LengthNeverNegative ==
    (pc = "walk" /\ i < Len(png)) => read32(png, i) >= 0

\* C10: once the header chunk has been rejected, no later chunk is visited,
\* no image data is appended and the decompressor is not invoked.
C10_WalkStopsAfterRejection ==
    hist.hdrRejected =>
        /\ ~hist.afterReject
        /\ ~hist.appendedAfterReject
        /\ ~hist.inflateAfterReject

(***************************************************************************)
(* Supporting facts: where the two revisions differ, the revision that     *)
(* does meet a property above, and what holds of mean on records whose     *)
(* entries are all bytes.                                                  *)
(***************************************************************************)
AllBytes ==
    \A n \in 1..Len(data) : \A c \in 1..Len(data[n]) : IsByte(data[n][c])

\* the newer revision rejects on an unsupported selector
NewerRevisionRejectsBadSelector ==
    rev = "part_000" => C4_BadSelectorRejects

\* the older revision returns from every header rejection
OlderRevisionStopsAfterRejection ==
    rev = "index" => C10_WalkStopsAfterRejection

\* mean on a record of bytes
MeanOfBytesIsRoundedAverage ==
    AllBytes => C6_MeanIsRoundedAverage

\* the record of an 8-bit image whose stream was reconstructed into bytes
WellFormedDataIsWidthTimesHeight ==
    (pixels # <<>> /\ AllBytes /\ imageData.depth = 8) =>
        C2_DataIsWidthTimesHeight

====
